---- MODULE Spec2Model ----
(***************************************************************************)
(* A model of tamuhey/python_blockchain: nodes that mine proof-of-work     *)
(* blocks over pending transactions, exchange them through the mailboxes   *)
(* of a shared Network object and reconcile their chains by the            *)
(* longest-valid-chain rule.                                               *)
(*                                                                         *)
(* Strings are modelled as sequences of digits: a SHA-256 hex digest is a  *)
(* sequence of HashLen digits over Digit, and the genesis sentinel "0" is  *)
(* the one-digit string <<0>>.  None is <<>> for a signature and NoNonce   *)
(* for a nonce.  The JSON text of a block or transaction is a tuple of its *)
(* fields in declaration order; json_loads parses it back to a record.     *)
(***************************************************************************)
EXTENDS Integers, Sequences, FiniteSets, TLC

\* ------------------------------------------------------------- bounds
\* digits of a digest (64 hex digits in the program)
HashLen == 5
\* the nonce stream of random_generator is cut to 0..MaxNonce
MaxNonce == 1
\* the attempt counter i of one mine() call is cut at MaxAttempts
MaxAttempts == 1
\* Wallet.send calls
MaxSend == 1
\* posts and drains of SpecNet
MaxPosts == 3
MaxDrains == 3
\* calls of the Network API by a peer that is not one of the modelled nodes
MaxClient == 1

\* ---------------------------------------------------- program constants
difficulty == 3
CheckInterval == 100
NoNonce == -1

\* the digest alphabet (hex digits in the program)
Digit == {0, 1}
Radix == Cardinality(Digit)

\* the nodes that run Node.work, and a peer that only publishes
Nodes == {"n1", "n2"}
Peer == "n3"
Nonces == 0..MaxNonce
\* what time() returns: the clocks of two processes never read the same, and
\* the program compares no two readings but through the hash of a block
time(caller) == CASE caller = "n1" -> 1 [] caller = "n2" -> 2 [] OTHER -> 3

\* ------------------------------------------------------------- helpers
Last(s) == s[Len(s)]
Front(s) == SubSeq(s, 1, Len(s) - 1)

RECURSIVE Pow(_, _)
Pow(b, e) == IF e = 0 THEN 1 ELSE b * Pow(b, e - 1)

RECURSIVE SeqSum(_)
SeqSum(s) == IF s = <<>> THEN 0 ELSE Head(s) + SeqSum(Tail(s))

\* the number a digit string denotes
RECURSIVE DigitsValue(_)
DigitsValue(s) == IF s = <<>> THEN 0 ELSE Radix * DigitsValue(Front(s)) + Last(s)

\* the digit string of width w that denotes v
RECURSIVE ToDigits(_, _)
ToDigits(v, w) == IF w = 0 THEN <<>> ELSE Append(ToDigits(v \div Radix, w - 1), v % Radix)

\* ------------------------------------------------------- transactions
\* keys of the one modelled wallet; the signature scheme is abstract:
\* a signature is the pair of the signing key and the signed text
WalletAddress == "A"
ReceiverAddress == "B"
PeerAddress == "P"
PrivateKeyOf(address) == <<"priv", address>>

Transaction(sender, receiver, value, sign) ==
    [sender_address |-> sender, receiver_address |-> receiver, value |-> value, sign |-> sign]

str_data(t) == <<t.sender_address, t.receiver_address, t.value>>

Transaction_json_dumps(t) == <<t.sender_address, t.receiver_address, t.value, t.sign>>

Transaction_json_loads(s) == Transaction(s[1], s[2], s[3], s[4])

PKCS1_sign(key, text) == <<key, text>>

PKCS1_verify(address, text, sign) == sign = <<PrivateKeyOf(address), text>>

sign_transaction(t) ==
    [t EXCEPT !.sign = PKCS1_sign(PrivateKeyOf(t.sender_address), str_data(t))]

\* ------------------------------------------------------------- blocks
Block(t, transactions, previous_hash, nonce) ==
    [time |-> t, transactions |-> transactions,
     previous_hash |-> previous_hash, nonce |-> nonce]

Block_json_dumps(b) ==
    <<b.time,
      [i \in 1..Len(b.transactions) |-> Transaction_json_dumps(b.transactions[i])],
      b.previous_hash,
      b.nonce>>

Block_json_loads(s) ==
    Block(s[1], [i \in 1..Len(s[2]) |-> Transaction_json_loads(s[2][i])], s[3], s[4])

BlockChain_json_dumps(c) == [i \in 1..Len(c) |-> Block_json_dumps(c[i])]

BlockChain_json_loads(s) == [i \in 1..Len(s) |-> Block_json_loads(s[i])]

\* SHA-256 of a JSON text, as a deterministic function of every field of it.
\* The leading `difficulty` digits turn with the nonce, so that every block has
\* a nonce in Nonces that meets the difficulty; the other digits do not.
HashMod == Pow(Radix, HashLen)
NonceStride == Pow(Radix, HashLen - difficulty)
Min(a, b) == IF a < b THEN a ELSE b
AddressCode(a) == CASE a = WalletAddress -> 1 [] a = ReceiverAddress -> 2 [] OTHER -> 3
SignCode(sign) == IF sign = <<>> THEN 0 ELSE 3 + sign[2][3]
TransactionCode(s) == AddressCode(s[1]) + 2 * AddressCode(s[2]) + 5 * s[3] + SignCode(s[4])
sha256(s) ==
    LET text == 7 * s[1]
                + SeqSum([i \in 1..Len(s[2]) |-> TransactionCode(s[2][i])])
                + 3 * DigitsValue(s[3])
        lead == (text + s[4] + 1) % Min(MaxNonce + 1, Pow(Radix, difficulty))
    IN  ToDigits((lead * NonceStride) + (text % NonceStride), HashLen)

hash(b) == sha256(Block_json_dumps(b))

genesis == Block(0, <<>>, <<0>>, NoNonce)

\* ------------------------------------------------------- verification
verify_transaction(t) ==
    IF t.sign = <<>> THEN FALSE
    ELSE PKCS1_verify(t.sender_address, str_data(t), t.sign)

verify_proof(b) == SubSeq(hash(b), 1, difficulty) = [i \in 1..difficulty |-> 0]

verify_block(b) ==
    LET is_correct_transactions ==
            \A i \in 1..Len(b.transactions) : verify_transaction(b.transactions[i])
        is_correct_proof == verify_proof(b)
    IN  is_correct_transactions /\ is_correct_proof

\* verify_chain without the test of line 91
verify_chain_unlinked(c) == \A k \in 2..Len(c) : verify_block(c[k])

\* verify_chain whose range ends at -1: the first block is checked as well
verify_chain_from_first(c) ==
    \A k \in 1..Len(c) :
      verify_block(c[k]) /\ (k > 1 => hash(c[k - 1]) = c[k].previous_hash)

\* range(len(chain)-1, 0, -1) is the TLA+ indices Len(c) down to 2
verify_chain(c) ==
    \A k \in 2..Len(c) : verify_block(c[k]) /\ hash(c[k - 1]) = c[k].previous_hash

\* add_block without the pop of line 54
RECURSIVE add_block_loop_keeps(_, _)
add_block_loop_keeps(c, bs) ==
    IF bs = <<>> THEN [chain |-> c, val |-> FALSE]
    ELSE IF verify_block(Head(bs))
         THEN LET appended == Append(c, Head(bs))
              IN  IF verify_chain(appended)
                  THEN [chain |-> appended, val |-> TRUE]
                  ELSE add_block_loop_keeps(appended, Tail(bs))
         ELSE add_block_loop_keeps(c, Tail(bs))

\* add_block with line 55 inside the loop: it gives up after one candidate
add_block_loop_first(c, bs) ==
    IF bs = <<>> THEN [chain |-> c, val |-> FALSE]
    ELSE IF verify_block(Head(bs)) /\ verify_chain(Append(c, Head(bs)))
         THEN [chain |-> Append(c, Head(bs)), val |-> TRUE]
         ELSE [chain |-> c, val |-> FALSE]

\* the loop of add_block over the drained candidates, on chain c
RECURSIVE add_block_loop(_, _)
add_block_loop(c, bs) ==
    IF bs = <<>> THEN [chain |-> c, val |-> FALSE]
    ELSE IF verify_block(Head(bs))
         THEN LET appended == Append(c, Head(bs))
              IN  IF verify_chain(appended)
                  THEN [chain |-> appended, val |-> TRUE]
                  ELSE add_block_loop(Front(appended), Tail(bs))
         ELSE add_block_loop(c, Tail(bs))

deepcopy(x) == x

\* resolve_conflicts with >= on line 64
RECURSIVE resolve_loop_ties(_, _, _)
resolve_loop_ties(authoritative_chain, k, cs) ==
    IF k > Len(cs) THEN authoritative_chain
    ELSE IF ~verify_chain(cs[k]) THEN resolve_loop_ties(authoritative_chain, k + 1, cs)
    ELSE IF Len(cs[k]) >= Len(authoritative_chain.val)
         THEN resolve_loop_ties([ref |-> k, val |-> cs[k]], k + 1, cs)
         ELSE resolve_loop_ties(authoritative_chain, k + 1, cs)

\* resolve_conflicts with < on line 64
RECURSIVE resolve_loop_shorter(_, _, _)
resolve_loop_shorter(authoritative_chain, k, cs) ==
    IF k > Len(cs) THEN authoritative_chain
    ELSE IF ~verify_chain(cs[k]) THEN resolve_loop_shorter(authoritative_chain, k + 1, cs)
    ELSE IF Len(cs[k]) < Len(authoritative_chain.val)
         THEN resolve_loop_shorter([ref |-> k, val |-> cs[k]], k + 1, cs)
         ELSE resolve_loop_shorter(authoritative_chain, k + 1, cs)

\* resolve_conflicts that never takes a neighbour's chain
resolve_loop_keeps(authoritative_chain, k, cs) == authoritative_chain

\* the loop of resolve_conflicts; an object is [ref, val], ref 0 the node's
\* own chain object and ref k the copy made of the k-th fetched chain
RECURSIVE resolve_loop(_, _, _)
resolve_loop(authoritative_chain, k, cs) ==
    IF k > Len(cs) THEN authoritative_chain
    ELSE IF ~verify_chain(cs[k]) THEN resolve_loop(authoritative_chain, k + 1, cs)
    ELSE IF Len(cs[k]) > Len(authoritative_chain.val)
         THEN resolve_loop([ref |-> k, val |-> deepcopy(cs[k])], k + 1, cs)
         ELSE resolve_loop(authoritative_chain, k + 1, cs)

\* line 68, evaluated after line 67 has made self.chain the same object
resolve_return(self_chain, authoritative_chain) == self_chain.ref # authoritative_chain.ref

\* ------------------------------------------------------------- state
VARIABLES
    chain,          \* Node.chain of every node
    chains,         \* Network.chains: uuid -> JSON text of the published chain
    blocks,         \* Network.blocks: uuid -> list of JSON texts (block inbox)
    transactions,   \* Network.transactions: uuid -> list of JSON texts
    neighbours,     \* Network.neighbours: uuid -> sequence of uuids
    pc,             \* where every node is in Node.work
    loc,            \* the locals of the mine() call a node is in
    last,           \* the call a node's latest step completed: the operation, what
                    \* it returned, Node.chain as it found it, and what it fetched
                    \* (the candidates of add_block, the chains of resolve_conflicts)
    budget,         \* calls the wallet and the peer client have left
    net             \* the callers of SpecNet, where a Network call is not one step

vars == <<chain, chains, blocks, transactions, neighbours, pc, loc, last, budget, net>>

EmptyMap == [uuid \in {} |-> <<>>]
NoBlock == Block(0, <<>>, <<>>, NoNonce)
NoLocals == [block |-> NoBlock, i |-> 0]
NoCall == [op |-> "none", val |-> FALSE, old |-> <<>>, got |-> <<>>]

\* the callers of SpecNet: two posters and the node that drains its inboxes
Posters == {"p1", "p2"}
NoItem == <<0, <<>>, <<>>, NoNonce>>
NetIdle ==
    [poster |-> [p \in Posters |->
                   [stage |-> "idle", kind |-> "none", item |-> NoItem, present |-> FALSE]],
     drainer |-> [stage |-> "idle", kind |-> "none", res |-> <<>>],
     posted |-> [block |-> {}, transaction |-> {}],
     delivered |-> [block |-> <<>>, transaction |-> <<>>],
     posts |-> 0,
     drains |-> 0]

\* the adjacencies a Network is constructed with: every node lists the others,
\* every node lists itself too, and the default neighbours=()
Adjacencies ==
    { [n \in Nodes |-> SelectSeq(<<"n1", "n2", Peer>>, LAMBDA m : m # n)],
      [n \in Nodes |-> <<"n1", "n2", Peer>>],
      EmptyMap }

Init ==
    /\ chain = [n \in Nodes |-> <<genesis>>]
    /\ chains = EmptyMap
    /\ blocks = EmptyMap
    /\ transactions = EmptyMap
    /\ neighbours \in Adjacencies
    /\ pc = [n \in Nodes |-> "mine"]
    /\ loc = [n \in Nodes |-> NoLocals]
    /\ last = [n \in Nodes |-> NoCall]
    /\ budget = [send |-> MaxSend, client |-> MaxClient]
    /\ net = NetIdle

\* --------------------------------------------------------- Network
\* Every call of a Network method is one step here.
\* get_chain that hands out the node's live chain where it should hand out the
\* published text
get_chain_live(uuid) ==
    IF uuid \notin DOMAIN chains THEN <<>>
    ELSE IF uuid \in DOMAIN chain THEN chain[uuid]
    ELSE BlockChain_json_loads(chains[uuid])

get_chain(uuid) ==
    IF uuid \notin DOMAIN chains THEN <<>>
    ELSE BlockChain_json_loads(chains[uuid])

get_neighbour_chains(uuid) ==
    LET neighs == SelectSeq(neighbours[uuid], LAMBDA neigh : neigh # uuid)
    IN  [k \in 1..Len(neighs) |-> get_chain(neighs[k])]

\* post_block and post_transaction on their map: the map afterwards
post(box, item, uuid) ==
    IF uuid \notin DOMAIN box THEN (uuid :> <<item>>) @@ box
    ELSE [box EXCEPT ![uuid] = Append(@, item)]

post_block(box, block, uuid) == post(box, Block_json_dumps(block), uuid)

post_transaction(box, transaction, uuid) == post(box, Transaction_json_dumps(transaction), uuid)

\* the loop of broadcast_block over the receivers left: the map afterwards
RECURSIVE broadcast_loop(_, _, _)
broadcast_loop(box, block, receivers) ==
    IF receivers = <<>> THEN box
    ELSE broadcast_loop(post_block(box, block, Head(receivers)), block, Tail(receivers))

broadcast_block(box, block, uuid) == broadcast_loop(box, block, neighbours[uuid])

\* get_blocks and get_transactions: what the call returns, and the map afterwards
get_blocks(uuid) ==
    IF uuid \notin DOMAIN blocks THEN <<>>
    ELSE [k \in 1..Len(blocks[uuid]) |-> Block_json_loads(blocks[uuid][k])]

get_transactions(uuid) ==
    IF uuid \notin DOMAIN transactions THEN <<>>
    ELSE [k \in 1..Len(transactions[uuid]) |-> Transaction_json_loads(transactions[uuid][k])]

\* get_blocks / get_transactions without line 34 / 47
drained_kept(box, uuid) == box

drained(box, uuid) ==
    IF uuid \notin DOMAIN box THEN box ELSE [box EXCEPT ![uuid] = <<>>]

Returns(n, op, val, old, got) ==
    last' = [last EXCEPT ![n] = [op |-> op, val |-> val, old |-> old, got |-> got]]
Goto(n, label) == pc' = [pc EXCEPT ![n] = label]
Raise(n, op) == Goto(n, "raised") /\ Returns(n, op, FALSE, chain[n], <<>>)

\* ----------------------------------------------------------------- Node
\* lines 48-55
add_block_call(n, accepted, rejected) ==
    LET r == add_block_loop(chain[n], get_blocks(n))
    IN  /\ blocks' = drained(blocks, n)
        /\ chain' = [chain EXCEPT ![n] = r.chain]
        /\ Returns(n, "add_block", r.val, chain[n], get_blocks(n))
        /\ Goto(n, IF r.val THEN accepted ELSE rejected)

\* lines 59-68
resolve_conflicts_call(n, changed, kept) ==
    IF n \in DOMAIN neighbours
    THEN LET authoritative_chain ==
                 resolve_loop([ref |-> 0, val |-> chain[n]], 1, get_neighbour_chains(n))
             self_chain == authoritative_chain
             val == resolve_return(self_chain, authoritative_chain)
         IN  /\ chain' = [chain EXCEPT ![n] = self_chain.val]
             /\ Returns(n, "resolve_conflicts", val, chain[n], get_neighbour_chains(n))
             /\ Goto(n, IF val THEN changed ELSE kept)
    ELSE /\ Raise(n, "get_neighbour_chains")
         /\ chain' = chain

\* mine() without the return of lines 22-23
mine_builds_anyway(n) ==
    /\ pc[n] = "mine"
    /\ transactions' = drained(transactions, n)
    /\ Goto(n, "mine_search")
    /\ loc' = [loc EXCEPT ![n] =
                 [block |-> Block(time(n), get_transactions(n), hash(Last(chain[n])), NoNonce),
                  i |-> 0]]
    /\ last' = [last EXCEPT ![n] = NoCall]
    /\ UNCHANGED <<chain, chains, blocks, neighbours, budget, net>>

\* lines 21-25
mine(n) ==
    /\ pc[n] = "mine"
    /\ transactions' = drained(transactions, n)
    /\ IF Len(get_transactions(n)) = 0
       THEN /\ Goto(n, "add")
            /\ Returns(n, "mine", FALSE, chain[n], <<>>)
            /\ loc' = loc
       ELSE /\ Goto(n, "mine_search")
            /\ loc' = [loc EXCEPT ![n] =
                         [block |-> Block(time(n), get_transactions(n),
                                          hash(Last(chain[n])), NoNonce),
                          i |-> 0]]
            /\ last' = [last EXCEPT ![n] = NoCall]
    /\ UNCHANGED <<chain, chains, blocks, neighbours, budget, net>>

\* mine() that leaves the loop on any nonce
mine_found_unchecked(n) ==
    /\ pc[n] = "mine_search"
    /\ n \in DOMAIN neighbours
    /\ \E nonce \in Nonces :
         LET block == [loc[n].block EXCEPT !.nonce = nonce]
         IN  /\ blocks' = broadcast_block(blocks, block, n)
             /\ Goto(n, "add")
             /\ Returns(n, "mine", TRUE, chain[n], <<block>>)
    /\ loc' = [loc EXCEPT ![n] = NoLocals]
    /\ UNCHANGED <<chain, chains, transactions, neighbours, budget, net>>

\* mine() that appends the block it found to its own chain before line 37
mine_found_appends(n) ==
    /\ pc[n] = "mine_search"
    /\ \E nonce \in Nonces :
         LET block == [loc[n].block EXCEPT !.nonce = nonce]
         IN  /\ verify_proof(block)
             /\ n \in DOMAIN neighbours
             /\ chain' = [chain EXCEPT ![n] = Append(@, block)]
             /\ blocks' = broadcast_block(blocks, block, n)
             /\ Goto(n, "add")
             /\ Returns(n, "mine", TRUE, chain[n], <<block>>)
    /\ loc' = [loc EXCEPT ![n] = NoLocals]
    /\ UNCHANGED <<chains, transactions, neighbours, budget, net>>

\* lines 27-30 with a nonce that meets the difficulty, then lines 37-38; the
\* generator yields every nonce of a range once, so the search that has used
\* up its failing attempts ends here
mine_found(n) ==
    /\ pc[n] = "mine_search"
    /\ \E nonce \in Nonces :
         LET block == [loc[n].block EXCEPT !.nonce = nonce]
         IN  /\ verify_proof(block)
             /\ IF n \in DOMAIN neighbours
                THEN /\ blocks' = broadcast_block(blocks, block, n)
                     /\ Goto(n, "add")
                     /\ Returns(n, "mine", TRUE, chain[n], <<block>>)
                ELSE /\ Raise(n, "broadcast_block")
                     /\ blocks' = blocks
    /\ loc' = [loc EXCEPT ![n] = NoLocals]
    /\ UNCHANGED <<chain, chains, transactions, neighbours, budget, net>>

\* lines 27-30 with a nonce that does not, and the test `i % 100 == 0`
mine_search(n) ==
    /\ pc[n] = "mine_search"
    /\ loc[n].i <= MaxAttempts
    /\ \E nonce \in Nonces :
         LET block == [loc[n].block EXCEPT !.nonce = nonce]
         IN  /\ ~verify_proof(block)
             /\ IF loc[n].i % CheckInterval = 0
                THEN /\ loc' = [loc EXCEPT ![n].block = block]
                     /\ Goto(n, "mine_add_block")
                ELSE /\ loc' = [loc EXCEPT ![n].block = block, ![n].i = @ + 1]
                     /\ pc' = pc
    /\ last' = [last EXCEPT ![n] = NoCall]
    /\ UNCHANGED <<chain, chains, blocks, transactions, neighbours, budget, net>>

\* mine() that posts its drained transactions back before the return of line 33
mine_add_block_requeues(n) ==
    /\ pc[n] = "mine_add_block"
    /\ add_block_call(n, "add", "mine_resolve_conflicts")
    /\ loc' = [loc EXCEPT ![n] = IF pc'[n] = "add" THEN NoLocals ELSE @]
    /\ transactions' =
         IF pc'[n] = "add"
         THEN [transactions EXCEPT ![n] =
                 @ \o [k \in 1..Len(loc[n].block.transactions) |->
                         Transaction_json_dumps(loc[n].block.transactions[k])]]
         ELSE transactions
    /\ UNCHANGED <<chains, neighbours, budget, net>>

\* line 32: add_block() of the periodic check; mine() returns when it accepts
mine_add_block(n) ==
    /\ pc[n] = "mine_add_block"
    /\ add_block_call(n, "add", "mine_resolve_conflicts")
    /\ loc' = [loc EXCEPT ![n] = IF pc'[n] = "add" THEN NoLocals ELSE @]
    /\ UNCHANGED <<chains, transactions, neighbours, budget, net>>

\* line 34: resolve_conflicts() of the periodic check; the loop goes on when
\* it returns False
mine_resolve_conflicts(n) ==
    /\ pc[n] = "mine_resolve_conflicts"
    /\ resolve_conflicts_call(n, "add", "mine_search")
    /\ loc' = [loc EXCEPT ![n] =
                 IF pc'[n] = "mine_search" THEN [@ EXCEPT !.i = @ + 1] ELSE NoLocals]
    /\ UNCHANGED <<chains, blocks, transactions, neighbours, budget, net>>

\* line 14
add_block(n) ==
    /\ pc[n] = "add"
    /\ add_block_call(n, "post", "post")
    /\ UNCHANGED <<chains, transactions, neighbours, loc, budget, net>>

\* line 16 and network.py 10
post_chain(n) ==
    /\ pc[n] = "post"
    /\ chains' = (n :> BlockChain_json_dumps(chain[n])) @@ chains
    /\ Goto(n, "resolve")
    /\ Returns(n, "post_chain", FALSE, chain[n], <<>>)
    /\ UNCHANGED <<chain, blocks, transactions, neighbours, loc, budget, net>>

\* line 17
resolve_conflicts(n) ==
    /\ pc[n] = "resolve"
    /\ resolve_conflicts_call(n, "mine", "mine")
    /\ UNCHANGED <<chains, blocks, transactions, neighbours, loc, budget, net>>

\* --------------------------------------------------------------- Wallet
Values == {10}
WalletNodes == <<"n1", "n2">>

RECURSIVE wallet_broadcast(_, _, _)
wallet_broadcast(box, transaction, nodes) ==
    IF nodes = <<>> THEN box
    ELSE wallet_broadcast(post_transaction(box, transaction, Head(nodes)),
                          transaction, Tail(nodes))

\* Wallet.send
wallet_send ==
    /\ budget.send > 0
    /\ \E value \in Values :
         LET transaction == Transaction(WalletAddress, ReceiverAddress, value, <<>>)
         IN  transactions' =
                 wallet_broadcast(transactions, sign_transaction(transaction), WalletNodes)
    /\ budget' = [budget EXCEPT !.send = @ - 1]
    /\ UNCHANGED <<chain, chains, blocks, neighbours, pc, loc, last, net>>

\* ---------------------------------------------------------- peer client
\* A peer outside Nodes calls the Network API with what it built itself:
\* well-formed transactions, blocks and chains that need not be valid; a
\* tampered transaction carries a signature made over another value.
signed == sign_transaction(Transaction(PeerAddress, ReceiverAddress, 10, <<>>))
ForgedTransactions ==
    { Transaction(PeerAddress, ReceiverAddress, 10, <<>>),
      [signed EXCEPT !.value = @ + 1] }

Kinds == {"valid", "badproof", "unsigned", "tampered", "badlink"}

WithNonce(b, good) ==
    LET fit == {x \in Nonces : verify_proof([b EXCEPT !.nonce = x]) = good}
    IN  IF fit = {} THEN b
        ELSE [b EXCEPT !.nonce = CHOOSE x \in fit : \A y \in fit : x <= y]

OtherDigest(h) == ToDigits((DigitsValue(h) + 1) % HashMod, HashLen)

\* a block of the kind on top of chain c, stamped t
PeerBlock(kind, c, t) ==
    LET transaction ==
            CASE kind = "unsigned" -> Transaction(PeerAddress, ReceiverAddress, 10, <<>>)
              [] kind = "tampered" -> [signed EXCEPT !.value = @ + 1]
              [] OTHER -> signed
        previous_hash == IF kind = "badlink" THEN OtherDigest(hash(Last(c)))
                         ELSE hash(Last(c))
    IN  WithNonce(Block(t, <<transaction>>, previous_hash, NoNonce), kind # "badproof")

\* the peer's own fork: genesis grown by one block of any kind, and by a valid
\* block more
PeerChains ==
    LET one == {Append(<<genesis>>, PeerBlock(kind, <<genesis>>, time(Peer))) : kind \in Kinds}
    IN  one \cup {Append(c, PeerBlock("valid", c, time(Peer))) : c \in one}

client_post_chain ==
    /\ budget.client > 0
    /\ \E c \in PeerChains : chains' = (Peer :> BlockChain_json_dumps(c)) @@ chains
    /\ budget' = [budget EXCEPT !.client = @ - 1]
    /\ UNCHANGED <<chain, blocks, transactions, neighbours, pc, loc, last, net>>

client_post_block ==
    /\ budget.client > 0
    /\ \E kind \in Kinds, uuid \in Nodes :
         blocks' = post_block(blocks, PeerBlock(kind, chain[uuid], time(Peer)), uuid)
    /\ budget' = [budget EXCEPT !.client = @ - 1]
    /\ UNCHANGED <<chain, chains, transactions, neighbours, pc, loc, last, net>>

client_post_transaction ==
    /\ budget.client > 0
    /\ \E transaction \in ForgedTransactions, uuid \in Nodes :
         transactions' = post_transaction(transactions, transaction, uuid)
    /\ budget' = [budget EXCEPT !.client = @ - 1]
    /\ UNCHANGED <<chain, chains, blocks, neighbours, pc, loc, last, net>>

\* ------------------------------------------------------- specification
Next ==
    \/ \E n \in Nodes :
         \/ mine(n)
         \/ mine_found(n)
         \/ mine_search(n)
         \/ mine_add_block(n)
         \/ mine_resolve_conflicts(n)
         \/ add_block(n)
         \/ post_chain(n)
         \/ resolve_conflicts(n)
    \/ wallet_send
    \/ client_post_chain
    \/ client_post_block
    \/ client_post_transaction

Spec == Init /\ [][Next]_vars

\* --------------------------------------------------------------- SpecLive
\* Node.work of every node keeps running: each node is a process of its own
\* that the scheduler does not starve.  The adjacency lists every node with
\* its neighbours (symmetric and connected), so no call raises and a step of
\* work(n) is possible in every state: weak fairness of work(n) is then that
\* steps of work(n) happen again and again.
work(n) ==
    \/ mine(n)
    \/ mine_found(n)
    \/ mine_search(n)
    \/ mine_add_block(n)
    \/ mine_resolve_conflicts(n)
    \/ add_block(n)
    \/ post_chain(n)
    \/ resolve_conflicts(n)

InitLive ==
    /\ Init
    /\ neighbours = [n \in Nodes |-> SelectSeq(<<"n1", "n2", Peer>>, LAMBDA m : m # n)]

SpecLive == InitLive /\ [][Next]_vars /\ \A n \in Nodes : []<><<work(n)>>_vars

\* ------------------------------------------------------------- SpecNet
\* The inbox methods of Network step by step, as the manager's proxies run
\* them: every test, read and write of a shared dict or list is one step, and
\* the steps of different callers interleave.  Two posters post to the inboxes
\* of DrainNode while that node drains them.
DrainNode == "n1"
NetKinds == {"block", "transaction"}

\* the item of the j-th post over all: a block or a transaction like no other
NetItem(kind, j) ==
    IF kind = "block" THEN Block_json_dumps(Block(j, <<>>, <<0>>, NoNonce))
    ELSE Transaction_json_dumps(Transaction(WalletAddress, ReceiverAddress, j, <<>>))

Box(kind) == IF kind = "block" THEN blocks ELSE transactions

SetBox(kind, box) ==
    IF kind = "block" THEN blocks' = box /\ transactions' = transactions
    ELSE transactions' = box /\ blocks' = blocks

NetFrame == UNCHANGED <<chain, chains, neighbours, pc, loc, last, budget>>

\* network.py 21 / 38: the test `uuid not in self.blocks`
net_post_test(p) ==
    /\ net.poster[p].stage = "idle"
    /\ net.posts < MaxPosts
    /\ \E kind \in NetKinds :
         net' = [net EXCEPT
                   !.poster[p] = [stage |-> "write", kind |-> kind,
                                  item |-> NetItem(kind, net.posts + 1),
                                  present |-> DrainNode \in DOMAIN Box(kind)],
                   !.posts = @ + 1]
    /\ UNCHANGED <<blocks, transactions>>
    /\ NetFrame

\* network.py 22 / 39 when the test found no inbox, 24 / 41 when it found one
net_post_write(p) ==
    LET me == net.poster[p]
    IN  /\ me.stage = "write"
        /\ SetBox(me.kind,
                  IF me.present
                  THEN [Box(me.kind) EXCEPT ![DrainNode] = Append(@, me.item)]
                  ELSE (DrainNode :> <<me.item>>) @@ Box(me.kind))
        /\ net' = [net EXCEPT !.poster[p] = NetIdle.poster[p],
                              !.posted[me.kind] = @ \cup {me.item}]
        /\ NetFrame

\* network.py 31-32 / 44-45: no inbox, the call returns []
net_get_absent ==
    /\ net.drainer.stage = "idle"
    /\ net.drains < MaxDrains
    /\ \E kind \in NetKinds :
         /\ DrainNode \notin DOMAIN Box(kind)
         /\ net' = [net EXCEPT !.drains = @ + 1]
    /\ UNCHANGED <<blocks, transactions>>
    /\ NetFrame

\* network.py 33 / 46: the read of the inbox
net_get_read ==
    /\ net.drainer.stage = "idle"
    /\ net.drains < MaxDrains
    /\ \E kind \in NetKinds :
         /\ DrainNode \in DOMAIN Box(kind)
         /\ net' = [net EXCEPT
                      !.drainer = [stage |-> "clear", kind |-> kind,
                                   res |-> Box(kind)[DrainNode]],
                      !.drains = @ + 1]
    /\ UNCHANGED <<blocks, transactions>>
    /\ NetFrame

\* get_blocks / get_transactions without line 34 / 47
net_get_clear_keeps ==
    /\ net.drainer.stage = "clear"
    /\ net' = [net EXCEPT !.drainer = NetIdle.drainer,
                          !.delivered[net.drainer.kind] = @ \o net.drainer.res]
    /\ UNCHANGED <<blocks, transactions>>
    /\ NetFrame

\* network.py 34-35 / 47-48: the inbox is emptied and what was read is returned
net_get_clear ==
    LET me == net.drainer
    IN  /\ me.stage = "clear"
        /\ SetBox(me.kind, [Box(me.kind) EXCEPT ![DrainNode] = <<>>])
        /\ net' = [net EXCEPT !.drainer = NetIdle.drainer,
                              !.delivered[me.kind] = @ \o me.res]
        /\ NetFrame

InitNet ==
    /\ chain = [n \in Nodes |-> <<genesis>>]
    /\ chains = EmptyMap
    /\ blocks = EmptyMap
    /\ transactions = EmptyMap
    /\ neighbours = EmptyMap
    /\ pc = [n \in Nodes |-> "mine"]
    /\ loc = [n \in Nodes |-> NoLocals]
    /\ last = [n \in Nodes |-> NoCall]
    /\ budget = [send |-> 0, client |-> 0]
    /\ net = NetIdle

NextNet ==
    \/ \E p \in Posters : net_post_test(p) \/ net_post_write(p)
    \/ net_get_absent
    \/ net_get_read
    \/ net_get_clear

SpecNet == InitNet /\ [][NextNet]_vars

\* ---------------------------------------------------------- SpecVerify
\* verify_chain as a function of its argument: a caller hands it any chain of
\* up to MaxChain blocks out of a pool of blocks that are valid or invalid in
\* each way, on top of a first block that passes verify_block or does not.
MaxChain == 3
Roots == {genesis, PeerBlock("badproof", <<genesis>>, time(Peer))}
VerifyPool ==
    LET one == {PeerBlock(kind, <<r>>, time(Peer)) : kind \in Kinds, r \in Roots}
        two == {PeerBlock("valid", <<b>>, time(Peer)) : b \in one}
    IN  Roots \cup one \cup two
VerifyChains == UNION {[1..len -> VerifyPool] : len \in 0..MaxChain}

InitVerify ==
    /\ \E c \in VerifyChains : chain = [n \in Nodes |-> c]
    /\ chains = EmptyMap
    /\ blocks = EmptyMap
    /\ transactions = EmptyMap
    /\ neighbours = EmptyMap
    /\ pc = [n \in Nodes |-> "verify"]
    /\ loc = [n \in Nodes |-> NoLocals]
    /\ last = [n \in Nodes |-> NoCall]
    /\ budget = [send |-> 0, client |-> 0]
    /\ net = NetIdle

\* node.py 87-93 on the chain the caller holds
verify_chain_call(n) ==
    /\ pc[n] = "verify"
    /\ Goto(n, "verified")
    /\ Returns(n, "verify_chain", verify_chain(chain[n]), chain[n], <<>>)
    /\ UNCHANGED <<chain, chains, blocks, transactions, neighbours, loc, budget, net>>

NextVerify == \E n \in Nodes : verify_chain_call(n)

SpecVerify == InitVerify /\ [][NextVerify]_vars

\* ---------------------------------------------------------------- claims
Range(f) == {f[x] : x \in DOMAIN f}
MaxOf(S) == CHOOSE x \in S : \A y \in S : y <= x
Completed(n, op) == last[n].op = op /\ pc[n] # "raised"

\* the chain invariant of the data model, block by block
SignedBy(t) == t.sign = <<PrivateKeyOf(t.sender_address), str_data(t)>>
MeetsDifficulty(b) == \A i \in 1..difficulty : hash(b)[i] = 0
BlockSound(b) ==
    MeetsDifficulty(b) /\ \A i \in 1..Len(b.transactions) : SignedBy(b.transactions[i])
ChainSound(c) ==
    \A k \in 2..Len(c) : c[k].previous_hash = hash(c[k - 1]) /\ BlockSound(c[k])

\* C1: resolve_conflicts() leaves the local chain equal to the longest among
\* the previous local chain and the fetched neighbour chains that pass
\* verify_chain: it is the previous chain unless some valid neighbour chain is
\* strictly longer, and then it is a valid neighbour chain of the greatest length.
C1_ResolveAdoptsLongest ==
    \A n \in Nodes :
      Completed(n, "resolve_conflicts") =>
        LET valid == {c \in Range(last[n].got) : verify_chain(c)}
            longer == {c \in valid : Len(c) > Len(last[n].old)}
        IN  /\ longer = {} => chain[n] = last[n].old
            /\ longer # {} => /\ chain[n] \in longer
                              /\ Len(chain[n]) = MaxOf({Len(c) : c \in longer})

\* a node took the longest of two valid neighbour chains that were both longer
C1_Witness ==
    \E n \in Nodes :
      /\ Completed(n, "resolve_conflicts")
      /\ \E c \in Range(last[n].got) :
           /\ verify_chain(c)
           /\ Len(last[n].old) < Len(c)
           /\ Len(c) < Len(chain[n])

\* C2: between operations every node's local chain is valid: each block after
\* the first links to the hash of the one before it, meets the proof-of-work
\* difficulty and holds only validly signed transactions.
C2_LocalChainsValid == \A n \in Nodes : ChainSound(chain[n])

\* a node holds a chain of three blocks and the other node one grown by add_block
C2_Witness ==
    \E n, m \in Nodes :
      /\ Len(chain[n]) >= 3
      /\ Completed(m, "add_block") /\ last[m].val /\ Len(chain[m]) = 2

\* C3: every posted block or transaction is returned by exactly one get call,
\* also when a post falls between the read and the emptying of a drain: what
\* a get call empties from the inbox is what it returns, no more.
Inbox(kind) == IF DrainNode \in DOMAIN Box(kind) THEN Box(kind)[DrainNode] ELSE <<>>
C3_DrainReturnsWhatItEmpties ==
    [][(net.drainer.stage = "clear" /\ net'.drainer.stage = "idle") =>
         /\ Inbox(net.drainer.kind) = net.drainer.res
         /\ net'.delivered[net.drainer.kind] =
              net.delivered[net.drainer.kind] \o Inbox(net.drainer.kind)]_vars

\* C4: add_block() returns True exactly when a drained candidate passes
\* verify_block and links to the tip; it then has appended the first such
\* candidate and nothing else; otherwise the chain is as it was.
C4_AddBlockFirstFit ==
    \A n \in Nodes :
      Completed(n, "add_block") =>
        LET cands == last[n].got
            fits == {k \in 1..Len(cands) :
                       /\ verify_block(cands[k])
                       /\ cands[k].previous_hash = hash(Last(last[n].old))}
        IN  /\ last[n].val = (fits # {})
            /\ fits = {} => chain[n] = last[n].old
            /\ fits # {} =>
                 /\ chain[n] = Append(last[n].old,
                                      cands[CHOOSE k \in fits : \A j \in fits : k <= j])
                 /\ Len(chain[n]) = Len(last[n].old) + 1

\* add_block rolled back or skipped a first candidate and took a later one
C4_Witness ==
    \E n \in Nodes :
      /\ Completed(n, "add_block")
      /\ last[n].val
      /\ Len(last[n].got) >= 2
      /\ Last(chain[n]) # last[n].got[1]

\* C5: resolve_conflicts() returns True exactly when it replaced the local
\* chain by a different one.
C5_ResolveReportsChange ==
    \A n \in Nodes :
      Completed(n, "resolve_conflicts") => (last[n].val = (chain[n] # last[n].old))

C7_BroadcastMeetsDifficulty ==
    [][\A n \in Nodes :
         (pc[n] = "mine_search" /\ pc'[n] = "add") =>
           /\ last'[n].op = "mine" /\ last'[n].val
           /\ MeetsDifficulty(last'[n].got[1])
           /\ \A r \in Range(neighbours[n]) :
                /\ blocks'[r] # <<>>
                /\ MeetsDifficulty(Block_json_loads(Last(blocks'[r])))]_vars

\* a node has just broadcast a block it mined
C7_Witness ==
    \E n \in Nodes :
      /\ Completed(n, "mine") /\ last[n].val
      /\ \E r \in Range(neighbours[n]) : Block_json_loads(Last(blocks[r])) = last[n].got[1]

\* C8: with an empty or absent transaction inbox mine() returns False without
\* raising and changes neither the local chains nor any block inbox.
C8_MineNothingToMine ==
    [][\A n \in Nodes :
         (pc[n] = "mine" /\ pc'[n] # "mine" /\ get_transactions(n) = <<>>) =>
           /\ pc'[n] = "add"
           /\ last'[n].op = "mine" /\ last'[n].val = FALSE
           /\ chain' = chain
           /\ blocks' = blocks]_vars

\* mine() returned False on an inbox that exists and is empty
C8_Witness ==
    \E n \in Nodes :
      /\ Completed(n, "mine") /\ ~last[n].val
      /\ n \in DOMAIN transactions /\ transactions[n] = <<>>

\* C9: no Network read raises for an id the Network has no entry for.
C9_ReadsNeverRaise ==
    \A n \in Nodes : ~(pc[n] = "raised" /\ last[n].op = "get_neighbour_chains")

\* C10: broadcast_block(block, n) leaves n's own block inbox unchanged.
C10_BroadcastSkipsSelf ==
    [][\A n \in Nodes :
         (pc[n] = "mine_search" /\ pc'[n] = "add") =>
           IF n \in DOMAIN blocks THEN blocks'[n] = blocks[n]
           ELSE n \notin DOMAIN blocks']_vars

\* C11: post_block is safe for concurrent posters: with no drain begun, every
\* block whose post_block has returned is in the inbox, also when the inbox
\* was created by one of two posts that ran at the same time.
C11_NoPostLost ==
    net.drains = 0 => \A item \in net.posted["block"] : item \in Range(Inbox("block"))

\* C12: get_chain(n) returns the chain given to the latest post_chain for n:
\* a post_chain step makes it the poster's chain of that moment, no other step
\* changes it, and a step that calls get_neighbour_chains changes neither the
\* published chains nor any inbox.
C12_GetChainIsSnapshot ==
    [][\A n \in Nodes :
         /\ IF pc[n] = "post" /\ pc'[n] = "resolve"
            THEN get_chain(n)' = chain[n]
            ELSE get_chain(n)' = get_chain(n)
         /\ (pc[n] \in {"resolve", "mine_resolve_conflicts"} /\ pc'[n] # pc[n]) =>
              /\ chains' = chains
              /\ blocks' = blocks
              /\ transactions' = transactions]_vars

\* a node fetched a neighbour's published chain that the neighbour's own chain
\* has since grown past
C12_Witness ==
    \E n, m \in Nodes :
      /\ Completed(m, "resolve_conflicts")
      /\ n \in DOMAIN chains
      /\ get_chain(n) \in Range(last[m].got)
      /\ Len(get_chain(n)) < Len(chain[n])

\* C13: of two drains of one inbox in a row with no post in between, the
\* second returns an empty list: a drain that returns leaves the inbox empty,
\* an empty inbox stays empty until a post writes to it, and a drain of an
\* empty inbox reads the empty list.
PostWrites(kind) ==
    \E p \in Posters :
      /\ net.poster[p].stage = "write"
      /\ net.poster[p].kind = kind
      /\ net'.poster[p].stage = "idle"
DrainReturns(kind) ==
    /\ net.drainer.stage = "clear"
    /\ net.drainer.kind = kind
    /\ net'.drainer.stage = "idle"
DrainReads(kind) ==
    /\ net.drainer.stage = "idle"
    /\ net'.drainer.stage = "clear"
    /\ net'.drainer.kind = kind
C13_SecondDrainEmpty ==
    [][\A kind \in NetKinds :
         /\ DrainReturns(kind) => Inbox(kind)' = <<>>
         /\ (Inbox(kind) = <<>> /\ ~PostWrites(kind)) => Inbox(kind)' = <<>>
         /\ (Inbox(kind) = <<>> /\ DrainReads(kind)) => net'.drainer.res = <<>>]_vars

\* a drain has returned items, and the next drain of that inbox has read the
\* empty list
C13_Witness ==
    \E kind \in NetKinds :
      /\ net.drainer.stage = "clear"
      /\ net.drainer.kind = kind
      /\ net.drainer.res = <<>>
      /\ net.delivered[kind] # <<>>
      /\ DrainNode \in DOMAIN Box(kind)

\* C14: a mining attempt is abandoned when a periodic check accepts a block or
\* adopts a longer chain, so every block mine() broadcasts has for
\* previous_hash the hash of the miner's chain tip at the time of the broadcast.
C14_BroadcastLinksToTip ==
    [][\A n \in Nodes :
         (pc[n] = "mine_search" /\ pc'[n] = "add") =>
           last'[n].got[1].previous_hash = hash(Last(chain[n]))]_vars

\* C15: verify_chain(chain) is True exactly when every block after the first
\* passes the proof-of-work and signature checks and has for previous_hash
\* the hash of the block before it; the first block is never checked, so the
\* empty chain and every one-block chain are valid.
C15_VerifyChainExact ==
    \A n \in Nodes :
      Completed(n, "verify_chain") =>
        /\ last[n].val = ChainSound(last[n].old)
        /\ Len(last[n].old) <= 1 => last[n].val

\* verify_chain accepted a chain of MaxChain blocks whose first block fails
\* verify_block
C15_Witness ==
    \E n \in Nodes :
      /\ Completed(n, "verify_chain")
      /\ last[n].val
      /\ Len(last[n].old) = MaxChain
      /\ ~verify_block(last[n].old[1])

\* C16: with every node's loop running and a symmetric connected adjacency,
\* once nothing more is sent and the transaction and block inboxes of all
\* nodes are empty,
\* every local chain comes to have the greatest length among the local chains
\* and keeps it from then on.
Quiet ==
    /\ budget.send = 0 /\ budget.client = 0
    /\ \A n \in Nodes : get_transactions(n) = <<>> /\ get_blocks(n) = <<>>
Converged == \A n \in Nodes : Len(chain[n]) = MaxOf({Len(chain[m]) : m \in Nodes})
C16_EventuallyConverged == Quiet ~> []Converged

\* with all quiet a node has taken a neighbour's longer chain and the lengths
\* are equal
C16_Witness ==
    /\ Quiet
    /\ Converged
    /\ \E n \in Nodes :
         /\ Completed(n, "resolve_conflicts")
         /\ Len(chain[n]) > Len(last[n].old)

\* C17: no step shortens a node's local chain: add_block leaves its length or
\* adds one, resolve_conflicts leaves the chain or makes it strictly longer,
\* mine's own steps and post_chain leave the chain as it is.
C17_ChainNeverShrinks ==
    [][\A n \in Nodes :
         /\ Len(chain'[n]) >= Len(chain[n])
         /\ (pc[n] \in {"add", "mine_add_block"} /\ pc'[n] # pc[n]) =>
              Len(chain'[n]) - Len(chain[n]) \in {0, 1}
         /\ (pc[n] \in {"resolve", "mine_resolve_conflicts"} /\ pc'[n] # pc[n]) =>
              (chain'[n] = chain[n] \/ Len(chain'[n]) > Len(chain[n]))
         /\ pc[n] \in {"mine", "mine_search", "post"} => chain'[n] = chain[n]]_vars

\* resolve_conflicts made a chain longer by two blocks at once
C17_Witness ==
    \E n \in Nodes :
      /\ Completed(n, "resolve_conflicts")
      /\ Len(chain[n]) = Len(last[n].old) + 2

\* C18: mine() never appends the block it mined to the miner's own chain: the
\* steps of mine() other than its periodic checks leave the chain as it is,
\* and the step that finds the nonce puts the block at the end of the inbox of
\* every receiver of broadcast_block and nowhere else.
C18_MinedBlockOnlyBroadcast ==
    [][\A n \in Nodes :
         /\ (pc[n] \in {"mine", "mine_search"} /\ pc'[n] # pc[n]) => chain'[n] = chain[n]
         /\ (pc[n] = "mine_search" /\ pc'[n] = "add") =>
              /\ chain' = chain
              /\ chains' = chains
              /\ transactions' = transactions
              /\ \A r \in Nodes \cup {Peer} :
                   get_blocks(r)' =
                     IF r \in Range(neighbours[n])
                     THEN Append(get_blocks(r), last'[n].got[1])
                     ELSE get_blocks(r)]_vars

\* a miner has broadcast its block: the block is in the inbox of its
\* neighbours and its own chain is the chain it had
C18_Witness ==
    \E n \in Nodes :
      /\ Completed(n, "mine") /\ last[n].val
      /\ chain[n] = last[n].old
      /\ n \notin Range(neighbours[n])
      /\ \A r \in Range(neighbours[n]) : last[n].got[1] \in Range(get_blocks(r))
      /\ last[n].got[1] \notin Range(chain[n])

\* C19: every block one add_block() call drains is gone from the inbox after
\* the call, accepted, rejected or never examined: the call leaves the inbox
\* empty and the other inboxes alone, and appends at most one of the drained
\* candidates to the chain.
C19_DrainedBlocksDropped ==
    [][\A n \in Nodes :
         (pc[n] \in {"add", "mine_add_block"} /\ pc'[n] # pc[n]) =>
           /\ last'[n].got = get_blocks(n)
           /\ get_blocks(n)' = <<>>
           /\ \A r \in (Nodes \cup {Peer}) \ {n} : get_blocks(r)' = get_blocks(r)
           /\ \/ chain'[n] = chain[n]
              \/ \E k \in 1..Len(get_blocks(n)) :
                   chain'[n] = Append(chain[n], get_blocks(n)[k])]_vars

\* add_block accepted its first candidate and dropped a second one that would
\* have fitted the same tip
C19_Witness ==
    \E n \in Nodes :
      /\ Completed(n, "add_block") /\ last[n].val
      /\ Len(last[n].got) >= 2
      /\ Last(chain[n]) = last[n].got[1]
      /\ verify_block(last[n].got[2])
      /\ last[n].got[2].previous_hash = hash(Last(last[n].old))
      /\ last[n].got[2] \notin Range(chain[n])
      /\ get_blocks(n) = <<>>

\* C20: the transactions mine() drains are removed for good: the drain leaves
\* the inbox empty, and when the periodic add_block() accepts a competing
\* block, mine() returns True, drops its candidate block with the drained
\* transactions, broadcasts nothing and posts nothing back to an inbox.
C20_AbandonedTransactionsLost ==
    [][\A n \in Nodes :
         /\ (pc[n] = "mine" /\ pc'[n] # "mine") => get_transactions(n)' = <<>>
         /\ (pc[n] = "mine_add_block" /\ pc'[n] = "add") =>
              /\ last'[n].val
              /\ loc[n].block.transactions # <<>>
              /\ loc'[n] = NoLocals
              /\ transactions' = transactions
              /\ get_blocks(n)' = <<>>
              /\ \A r \in (Nodes \cup {Peer}) \ {n} : get_blocks(r)' = get_blocks(r)]_vars

\* a node gave up its mining attempt for a competing block; its inbox holds no
\* transaction and no inbox holds a block built by it
C20_Witness ==
    \E n \in Nodes :
      /\ pc[n] = "add"
      /\ Completed(n, "add_block") /\ last[n].val
      /\ get_transactions(n) = <<>>
      /\ \A r \in Nodes \cup {Peer} :
           \A k \in 1..Len(get_blocks(r)) : get_blocks(r)[k].time # time(n)

====
